---- MODULE Spec2Model ----
(***************************************************************************)
(* A model of the statsd client (package statsd: statsd.go, conn.go).      *)
(*                                                                         *)
(* Threads: the host application's goroutines (Producers) calling the      *)
(* package-level functions, the dispatcher goroutine started by sendAsync  *)
(* (WorkerId) and the flush goroutine started by newClient (FlusherId).    *)
(* Strings are sequences of one-character strings, so that the empty stat  *)
(* name is << >> and prefixes can be trimmed and joined as the code does.  *)
(* Sample rates (float32) are integers in thousandths: 1.0 is 1000.        *)
(***************************************************************************)
EXTENDS Integers, Sequences, FiniteSets, TLC

\* ---------------------------------------------------------------- bounds
\* how many package-level calls the host application makes in one run
MaxCalls == 3
\* how many times the flush ticker fires in one run
MaxTicks == 2
\* capacity of sendCh in the model; the code's channel holds 1024 items
QueueCap == 2

\* ------------------------------------------------------------- constants
Nil == "nil"
\* a nil *Config and a nil channel; a set one is a 1-tuple holding the value
NilConfig == << >>
NilChan == << >>
Free == "free"

\* defaultSampleRate (1.0) in thousandths
defaultSampleRate == 1000

\* time.Millisecond in nanoseconds
Millisecond == 1000000

metricTypeCount == "Count"
metricTypeGauge == "Gauge"
metricTypeFGauge == "FGauge"
metricTypeTimer == "Timer"
\* a call of Client.DecrWithSampling, which no package-level function makes
methodDecr == "Decr"

Producers == {"p1", "p2"}
WorkerId == "worker"
FlusherId == "flusher"
Threads == Producers \cup {WorkerId}

\* ---------------------------------------------------------------- inputs
\* stat names the host passes: "a", "b" and the empty string
StatA == <<"a">>
StatB == <<"b">>
StatEmpty == << >>
\* Config.Project as given to Setup: "s." (the trailing dot is trimmed)
Projects == {<<"s", ".">>}
\* the draws fireRand.Float32() can return, in thousandths: [0.0, 1.0)
RandDraws == {0, 500, 999}

VARIABLES
    config,         \* statsd.go:22  *Config: NilConfig or <<[Enable, SampleRate, Project]>>
    once,           \* statsd.go:186 sync.Once: "fresh", "running", "done"
    defaultClient,  \* statsd.go:187 *Client: Nil or "client"
    sendLoopOnce,   \* statsd.go:207 sync.Once
    sendCh,         \* statsd.go:208 chan *sendItem: NilChan or <<the queued items>>
    workerCli,      \* statsd.go:215 cli captured by the dispatcher goroutine
    prefix,         \* conn.go:23    Client.prefix
    conn,           \* conn.go:24    Client.conn: Nil, "open", or "closed" once Close has closed it
    flushticker,    \* conn.go:28    Client.flushticker: Nil, "running" or "stopped"
    buffer,         \* conn.go:26    Client.buffer: sequence of countBuffer
    m,              \* conn.go:27    Client.m: Free or the thread holding it
    pc,             \* where each thread is
    frame,          \* each thread's current call: stat, val, t, sampleRate, cli; and
                    \* err, the error the Client method it last called returned
    fbuf,           \* conn.go:63    the flush loop's local buffer
    fidx,           \* conn.go:66    the flush loop's idx (1-based)
    wire,           \* the conn.Write calls made, in order
    crashed,        \* the process died of an unrecovered panic
    dials,          \* how many times net.DialTimeout was called
    flushLoops,     \* how many bufferSendLoop goroutines were started
    workers,        \* how many dispatcher goroutines were started
    ncalls,         \* package-level calls made so far
    nticks,         \* ticks delivered so far
    nswaps,         \* buffer swaps done so far
    winSum,         \* per stat: sum of the deltas passed to addToBuffer since the last swap
    winCalls,       \* per stat: number of addToBuffer calls since the last swap
    totCalls,       \* per stat: number of addToBuffer calls in the whole run
    totSum,         \* per stat: sum of the deltas passed to addToBuffer in the whole run
    accepted,       \* the items the channel accepted, in order
    routed,         \* the items the dispatcher goroutine passed to sendEx, in order
    dropped,        \* the call numbers of the items sendAsync dropped
    addedBy         \* the threads that have run addToBuffer

progVars == <<config, once, defaultClient, sendLoopOnce, sendCh, workerCli,
              prefix, conn, flushticker, buffer, m, pc, frame, fbuf, fidx, wire, crashed>>
countVars == <<dials, flushLoops, workers, ncalls, nticks, nswaps>>
ghostVars == <<winSum, winCalls, totCalls, totSum, accepted, routed, dropped, addedBy>>
vars == <<progVars, countVars, ghostVars>>

Stats == {StatA, StatB, StatEmpty}
ZeroPerStat == [s \in Stats |-> 0]

NoFrame == [stat |-> StatEmpty, val |-> 0, t |-> "none", sampleRate |-> 0,
            cli |-> Nil, id |-> 0, err |-> Nil]

Init ==
    /\ config = NilConfig
    /\ once = "fresh"
    /\ defaultClient = Nil
    /\ sendLoopOnce = "fresh"
    /\ sendCh = NilChan
    /\ workerCli = Nil
    /\ prefix = << >>
    /\ conn = Nil
    /\ flushticker = Nil
    /\ buffer = << >>
    /\ m = Free
    /\ pc = [t \in Threads \cup {FlusherId} |-> IF t \in Producers THEN "idle" ELSE "none"]
    /\ frame = [t \in Threads |-> NoFrame]
    /\ fbuf = << >>
    /\ fidx = 1
    /\ wire = << >>
    /\ crashed = FALSE
    /\ dials = 0
    /\ flushLoops = 0
    /\ workers = 0
    /\ ncalls = 0
    /\ nticks = 0
    /\ nswaps = 0
    /\ winSum = ZeroPerStat
    /\ winCalls = ZeroPerStat
    /\ totCalls = ZeroPerStat
    /\ totSum = ZeroPerStat
    /\ accepted = << >>
    /\ routed = << >>
    /\ dropped = {}
    /\ addedBy = {}


gateVars == <<once, defaultClient, dials, flushLoops>>
dispVars == <<sendLoopOnce, sendCh, workerCli, workers>>
cliVars == <<prefix, conn, flushticker>>
bufVars == <<buffer, m>>
flushVars == <<fbuf, fidx, nticks, nswaps>>
wireVars == <<wire>>
addGhost == <<winSum, winCalls, totCalls, totSum, addedBy>>
qGhost == <<accepted, routed, dropped>>

\* ------------------------------------------------------- pure functions

\* strings.TrimRight(prefix, "."): drop every trailing dot
RECURSIVE TrimRightDot(_)
TrimRightDot(s) ==
    IF s # << >> /\ s[Len(s)] = "."
        THEN TrimRightDot(SubSeq(s, 1, Len(s) - 1))
        ELSE s

\* Go's integer division truncates toward zero
GoDiv(a, b) == IF a >= 0 THEN a \div b ELSE -((-a) \div b)

checkCount(c) == IF c <= 0 THEN "ErrInvalidCount" ELSE Nil

checkSampleRate(r) == IF r < 0 \/ r > 1000 THEN "ErrInvalidSampleRate" ELSE Nil

\* the results shouldFire can return for a sample rate: true at rate 1,
\* otherwise fireRand.Float32() <= sampleRate for whatever is drawn
shouldFire(sampleRate) ==
    IF sampleRate = 1000 THEN {TRUE} ELSE {x <= sampleRate : x \in RandDraws}

\* addToBuffer whose loop never finds the bucket: every call appends one
addToBufferSlice_NoLookup(buf, stat, count) ==
    Append(buf, [name |-> stat, count |-> count])

\* the loop and the append of addToBuffer, on the bucket slice
addToBufferSlice(buf, stat, count) ==
    IF \E i \in 1..Len(buf) : buf[i].name = stat
        THEN LET i == CHOOSE j \in 1..Len(buf) :
                          /\ buf[j].name = stat
                          /\ \A k \in 1..(j - 1) : buf[k].name # stat
             IN [buf EXCEPT ![i].count = buf[i].count + 1]
        ELSE Append(buf, [name |-> stat, count |-> count])

\* the datagram Client.send formats: "<bucket>:<value>|<t>|@<sampleRate>",
\* the bucket carrying the prefix when there is one
Metric(pfx, bucket, value, t, sampleRate) ==
    [bucket |-> IF pfx # << >> THEN pfx \o <<".">> \o bucket ELSE bucket,
     value |-> value, t |-> t, sampleRate |-> sampleRate]

\* a send that makes room in a full channel by dropping the oldest item
ChanTrySend_DropOldest(ch, item) ==
    IF ch = NilChan THEN ch
    ELSE IF Len(ch[1]) < QueueCap THEN <<Append(ch[1], item)>>
    ELSE <<Append(Tail(ch[1]), item)>>

\* a send that puts the item at the head of the queue
ChanTrySend_Lifo(ch, item) ==
    IF ch # NilChan /\ Len(ch[1]) < QueueCap THEN <<(<<item>> \o ch[1])>> ELSE ch

\* the non-blocking send of sendAsync's select on a channel of QueueCap slots
ChanTrySend(ch, item) ==
    IF ch # NilChan /\ Len(ch[1]) < QueueCap THEN <<Append(ch[1], item)>> ELSE ch

\* the item a receive from the channel yields, and what stays queued
ChanRecvItem(ch) == Head(ch[1])
ChanRecvRest(ch) == <<Tail(ch[1])>>

\* ---------------------------------------------------------- control flow
Goto(t, label) == pc' = [pc EXCEPT ![t] = label]

\* a dispatcher goroutine that leaves its loop after one item
Home_WorkerExits(t) == IF t = WorkerId THEN "exited" ELSE "idle"

\* a Client method or sendEx returns: a producer's call is over, the
\* dispatcher goroutine goes back to its range loop
Home(t) == IF t = WorkerId THEN "recv" ELSE "idle"

\* the arguments of a call; an item bound for sendCh also gets the number
\* of the call that made it
CallFrame(stat, val, t, sampleRate) ==
    [stat |-> stat, val |-> val, t |-> t, sampleRate |-> sampleRate,
     cli |-> Nil, id |-> IF t = metricTypeCount THEN 0 ELSE ncalls + 1, err |-> Nil]

\* a producer is free to make call number ncalls + 1
Called(p) ==
    /\ ~crashed
    /\ pc[p] = "idle"
    /\ ncalls < MaxCalls
    /\ ncalls' = ncalls + 1

\* the call returns at once, having done nothing
ReturnsAtOnce == UNCHANGED <<pc, frame>>

Enter(p, label, fr) ==
    /\ Goto(p, label)
    /\ frame' = [frame EXCEPT ![p] = fr]

restOfCall == <<config, gateVars, dispVars, cliVars, bufVars, flushVars, wireVars,
                crashed, ghostVars>>

\* ------------------------------------------------ statsd.go: entry points

\* Setup(cfg), called by the host while no emission call is running
Setup(enable, rate, project) ==
    /\ ~crashed
    /\ config = NilConfig
    /\ \A p \in Producers : pc[p] = "idle"
    /\ config' = <<[Enable |-> enable,
                   SampleRate |-> IF rate = 0 THEN defaultSampleRate ELSE rate,
                   Project |-> project]>>
    /\ UNCHANGED <<gateVars, dispVars, cliVars, bufVars, flushVars, wireVars,
                   pc, frame, crashed, ncalls, ghostVars>>

\* Incr(stat): getClient().Incr(stat, 1)
Incr(p, stat) ==
    /\ Called(p)
    /\ Enter(p, "getClient", CallFrame(stat, 1, metricTypeCount, 1000))
    /\ UNCHANGED restOfCall

\* IncrByVal(stat, val)
IncrByVal(p, stat, val) ==
    /\ Called(p)
    /\ IF config = NilConfig
        THEN ReturnsAtOnce
        ELSE Enter(p, "getClient", CallFrame(stat, val, metricTypeCount, config[1].SampleRate))
    /\ UNCHANGED restOfCall

\* IncrWithSampling(stat, val, sampleRate)
IncrWithSampling(p, stat, val, sampleRate) ==
    /\ Called(p)
    /\ IF config = NilConfig
        THEN ReturnsAtOnce
        ELSE IF ~config[1].Enable
        THEN ReturnsAtOnce
        ELSE IF val = 0
        THEN ReturnsAtOnce
        ELSE Enter(p, "getClient", CallFrame(stat, val, metricTypeCount, sampleRate))
    /\ UNCHANGED restOfCall

\* send(stat, val, t, sampleRate): sendAsync with the same arguments
send(p, stat, val, t, sampleRate) ==
    Enter(p, "sendAsync", CallFrame(stat, val, t, sampleRate))

\* the body of GaugeWithSampling and of FGaugeWithSampling (through gauge)
gauge(p, stat, val, t, sampleRate) ==
    IF config = NilConfig
        THEN ReturnsAtOnce
        ELSE IF ~config[1].Enable
        THEN ReturnsAtOnce
        ELSE send(p, stat, val, t, sampleRate)

\* GaugeWithSampling(stat, val, sampleRate)
GaugeWithSampling(p, stat, val, sampleRate) ==
    /\ Called(p)
    /\ gauge(p, stat, val, metricTypeGauge, sampleRate)
    /\ UNCHANGED restOfCall

\* Gauge(stat, val)
Gauge(p, stat, val) ==
    /\ Called(p)
    /\ IF config = NilConfig
        THEN ReturnsAtOnce
        ELSE gauge(p, stat, val, metricTypeGauge, config[1].SampleRate)
    /\ UNCHANGED restOfCall

\* FGaugeWithSampling(stat, val, sampleRate)
FGaugeWithSampling(p, stat, val, sampleRate) ==
    /\ Called(p)
    /\ gauge(p, stat, val, metricTypeFGauge, sampleRate)
    /\ UNCHANGED restOfCall

\* FGauge(stat, val)
FGauge(p, stat, val) ==
    /\ Called(p)
    /\ IF config = NilConfig
        THEN ReturnsAtOnce
        ELSE gauge(p, stat, val, metricTypeFGauge, config[1].SampleRate)
    /\ UNCHANGED restOfCall

\* the body of TimingByValueWithSampling: the delta in milliseconds
timingByValue(p, stat, d, sampleRate) ==
    IF config = NilConfig
        THEN ReturnsAtOnce
        ELSE IF ~config[1].Enable
        THEN ReturnsAtOnce
        ELSE send(p, stat, GoDiv(d, Millisecond), metricTypeTimer, sampleRate)

\* TimingByValueWithSampling(stat, d, sampleRate)
TimingByValueWithSampling(p, stat, d, sampleRate) ==
    /\ Called(p)
    /\ timingByValue(p, stat, d, sampleRate)
    /\ UNCHANGED restOfCall

\* TimingByValue(stat, d)
TimingByValue(p, stat, d) ==
    /\ Called(p)
    /\ IF config = NilConfig
        THEN ReturnsAtOnce
        ELSE timingByValue(p, stat, d, config[1].SampleRate)
    /\ UNCHANGED restOfCall

\* TimingWithSampling(stat, t1, t2, sampleRate)
TimingWithSampling(p, stat, t1, t2, sampleRate) ==
    /\ Called(p)
    /\ timingByValue(p, stat, t2 - t1, sampleRate)
    /\ UNCHANGED restOfCall

\* Timing(stat, t1, t2)
Timing(p, stat, t1, t2) ==
    /\ Called(p)
    /\ IF config = NilConfig
        THEN ReturnsAtOnce
        ELSE timingByValue(p, stat, t2 - t1, config[1].SampleRate)
    /\ UNCHANGED restOfCall


\* a caller inside the package calls a method of the shared Client itself:
\* getClient().IncrWithSampling(stat, val, sampleRate), and likewise
\* DecrWithSampling, GaugeWithSampling, FGaugeWithSampling, TimingWithSampling
ClientCall(p, method, stat, val, sampleRate) ==
    /\ Called(p)
    /\ Enter(p, "getClient", CallFrame(stat, val, method, sampleRate))
    /\ UNCHANGED restOfCall

\* ------------------------------------------------- returns and panics

\* the Client method returns the error e to thread t (sendEx and the
\* package-level functions discard it)
ReturnErr(t, e) ==
    /\ Goto(t, Home(t))
    /\ frame' = [frame EXCEPT ![t] = [NoFrame EXCEPT !.err = e]]
    /\ UNCHANGED crashed

\* the Client method (or sendEx, or the package-level call) returns nil
Return(t) == ReturnErr(t, Nil)

Step(t, label) ==
    /\ Goto(t, label)
    /\ UNCHANGED <<frame, crashed>>

\* a run-time panic in thread t: it unwinds a producer's call (the host may
\* recover it); in the dispatcher goroutine nothing recovers it
Panic(t) ==
    IF t = WorkerId
        THEN crashed' = TRUE /\ UNCHANGED <<pc, frame>>
        ELSE Goto(t, "panicked") /\ UNCHANGED <<frame, crashed>>

\* the host application recovers the panic of a call (a deferred recover)
Recover(p) ==
    /\ ~crashed
    /\ pc[p] = "panicked"
    /\ Goto(p, "idle")
    /\ frame' = [frame EXCEPT ![p] = NoFrame]
    /\ UNCHANGED <<config, gateVars, dispVars, cliVars, bufVars, flushVars, wireVars,
                   crashed, ncalls, ghostVars>>

\* nothing recovers the panic: the Go runtime ends the process
Crash(p) ==
    /\ ~crashed
    /\ pc[p] = "panicked"
    /\ crashed' = TRUE
    /\ UNCHANGED <<config, gateVars, dispVars, cliVars, bufVars, flushVars, wireVars,
                   pc, frame, ncalls, ghostVars>>

\* ----------------------------------------------- statsd.go: getClient

InGetClient(t) == pc[t] \in {"getClient", "sl_getClient"}
InNewClient(t) == pc[t] \in {"newClient", "sl_newClient"}
\* whether t runs getClient from inside sendLoopOnce.Do
Nested(t) == pc[t] \in {"sl_getClient", "sl_newClient"}
\* where getClient's caller goes on: the Client method, or the go statement
AfterGetClient(t) == IF Nested(t) THEN "spawn" ELSE "method"

\* once.Do lets exactly the first caller run the function
OnceIsFresh(o) == o = "fresh"

\* getClient, first caller: once.Do runs the function, which evaluates
\* config.Project (a nil dereference before Setup) and calls newClient
getClientFirst(t) ==
    /\ ~crashed
    /\ InGetClient(t)
    /\ OnceIsFresh(once)
    /\ IF config = NilConfig
        THEN /\ once' = "done"
             /\ sendLoopOnce' = IF Nested(t) THEN "done" ELSE sendLoopOnce
             /\ Panic(t)
        ELSE /\ once' = "running"
             /\ Step(t, IF Nested(t) THEN "sl_newClient" ELSE "newClient")
             /\ UNCHANGED sendLoopOnce
    /\ UNCHANGED <<config, defaultClient, dials, flushLoops, sendCh, workerCli, workers,
                   cliVars, bufVars, flushVars, wireVars, ncalls, ghostVars>>

\* newClient inside once.Do: trim the prefix, dial (which succeeds, ok, or
\* fails), start the flush loop; a dial error makes getClient panic
newClient(t, ok) ==
    /\ ~crashed
    /\ InNewClient(t)
    /\ dials' = dials + 1
    /\ once' = "done"
    /\ IF ok
        THEN /\ prefix' = TrimRightDot(config[1].Project)
             /\ conn' = "open"
             /\ flushticker' = "running"
             /\ buffer' = << >>
             /\ flushLoops' = flushLoops + 1
             /\ defaultClient' = "client"
             /\ pc' = [pc EXCEPT ![t] = AfterGetClient(t), ![FlusherId] = "tick"]
             /\ frame' = [frame EXCEPT ![t].cli = "client"]
             /\ UNCHANGED <<sendLoopOnce, crashed>>
        ELSE /\ sendLoopOnce' = IF Nested(t) THEN "done" ELSE sendLoopOnce
             /\ Panic(t)
             /\ UNCHANGED <<prefix, conn, flushticker, buffer, flushLoops, defaultClient>>
    /\ UNCHANGED <<config, sendCh, workerCli, workers, m, flushVars, wireVars,
                   ncalls, ghostVars>>

\* getClient, any later caller: once.Do returns at once (it blocks while the
\* first caller is still inside), and getClient returns defaultClient
getClientDone(t) ==
    /\ ~crashed
    /\ InGetClient(t)
    /\ once = "done"
    /\ Goto(t, AfterGetClient(t))
    /\ frame' = [frame EXCEPT ![t].cli = defaultClient]
    /\ UNCHANGED <<config, gateVars, dispVars, cliVars, bufVars, flushVars, wireVars,
                   crashed, ncalls, ghostVars>>

\* ----------------------------------------------- statsd.go: sendAsync

\* sendAsync, first caller: sendLoopOnce.Do runs the function, which makes
\* the channel and calls getClient
sendAsyncFirst(t) ==
    /\ ~crashed
    /\ pc[t] = "sendAsync"
    /\ OnceIsFresh(sendLoopOnce)
    /\ sendLoopOnce' = "running"
    /\ sendCh' = IF sendCh = NilChan THEN <<<< >>>> ELSE sendCh
    /\ Step(t, "sl_getClient")
    /\ UNCHANGED <<config, gateVars, workerCli, workers, cliVars, bufVars, flushVars,
                   wireVars, ncalls, ghostVars>>

\* the go statement that ends the function run by sendLoopOnce.Do
startWorker(t) ==
    /\ ~crashed
    /\ pc[t] = "spawn"
    /\ workers' = workers + 1
    /\ workerCli' = frame[t].cli
    /\ sendLoopOnce' = "done"
    /\ pc' = [pc EXCEPT ![t] = "select", ![WorkerId] = "recv"]
    /\ UNCHANGED <<config, gateVars, sendCh, cliVars, bufVars, flushVars, wireVars,
                   frame, crashed, ncalls, ghostVars>>

\* sendAsync, any later caller: sendLoopOnce.Do returns at once
sendAsyncDone(t) ==
    /\ ~crashed
    /\ pc[t] = "sendAsync"
    /\ sendLoopOnce = "done"
    /\ Step(t, "select")
    /\ UNCHANGED <<config, gateVars, dispVars, cliVars, bufVars, flushVars, wireVars,
                   ncalls, ghostVars>>

SendItem(f) == [stat |-> f.stat, val |-> f.val, t |-> f.t,
                sampleRate |-> f.sampleRate, id |-> f.id]

\* the select of sendAsync: send if the channel takes it, else drop
sendAsyncSelect(t) ==
    /\ ~crashed
    /\ pc[t] = "select"
    /\ sendCh' = ChanTrySend(sendCh, SendItem(frame[t]))
    /\ IF sendCh' # sendCh
        THEN accepted' = Append(accepted, SendItem(frame[t])) /\ UNCHANGED dropped
        ELSE dropped' = dropped \cup {frame[t].id} /\ UNCHANGED accepted
    /\ Return(t)
    /\ UNCHANGED <<config, gateVars, sendLoopOnce, workerCli, workers, cliVars, bufVars,
                   flushVars, wireVars, ncalls, addGhost, routed>>

\* the dispatcher goroutine: receive the next item and call sendEx, which
\* drops an empty stat and otherwise calls the Client method of the type
sendEx ==
    /\ ~crashed
    /\ pc[WorkerId] = "recv"
    /\ sendCh # NilChan
    /\ Len(sendCh[1]) > 0
    /\ LET item == ChanRecvItem(sendCh) IN
        /\ sendCh' = ChanRecvRest(sendCh)
        /\ routed' = Append(routed, item)
        /\ IF item.stat = StatEmpty
            THEN UNCHANGED <<pc, frame>>
            ELSE /\ Goto(WorkerId, "method")
                 /\ frame' = [frame EXCEPT ![WorkerId] =
                        [stat |-> item.stat, val |-> item.val, t |-> item.t,
                         sampleRate |-> item.sampleRate, cli |-> workerCli,
                         id |-> item.id, err |-> Nil]]
    /\ UNCHANGED <<config, gateVars, sendLoopOnce, workerCli, workers, cliVars, bufVars,
                   flushVars, wireVars, crashed, ncalls, addGhost, accepted, dropped>>


\* ------------------------------------------------ conn.go: Client methods

notClient == <<config, gateVars, dispVars, cliVars, bufVars, flushVars, wireVars,
               ncalls, ghostVars>>

\* (c *Client) IncrWithSampling(stat, count, sampleRate), up to the call of
\* addToBuffer, whose c.m.Lock() dereferences c
ClientIncrWithSampling(t) ==
    /\ ~crashed
    /\ pc[t] = "method"
    /\ frame[t].t = metricTypeCount
    /\ IF checkSampleRate(frame[t].sampleRate) # Nil
        THEN ReturnErr(t, checkSampleRate(frame[t].sampleRate))
        ELSE \E fire \in shouldFire(frame[t].sampleRate) :
                IF ~fire
                    THEN Return(t)
                    ELSE IF checkCount(frame[t].val) # Nil
                    THEN ReturnErr(t, checkCount(frame[t].val))
                    ELSE IF frame[t].cli = Nil
                    THEN Panic(t)
                    ELSE Step(t, "lock")
    /\ UNCHANGED notClient

\* (c *Client) DecrWithSampling(stat, count, sampleRate), up to its
\* c.send(stat, -count, "c", sampleRate)
ClientDecrWithSampling(t) ==
    /\ ~crashed
    /\ pc[t] = "method"
    /\ frame[t].t = methodDecr
    /\ IF checkSampleRate(frame[t].sampleRate) # Nil
        THEN ReturnErr(t, checkSampleRate(frame[t].sampleRate))
        ELSE \E fire \in shouldFire(frame[t].sampleRate) :
                IF ~fire
                    THEN Return(t)
                    ELSE IF checkCount(frame[t].val) # Nil
                    THEN ReturnErr(t, checkCount(frame[t].val))
                    ELSE /\ Goto(t, "send")
                         /\ frame' = [frame EXCEPT ![t].val = -frame[t].val]
                         /\ UNCHANGED crashed
    /\ UNCHANGED notClient

\* the body shared by GaugeWithSampling and FGaugeWithSampling, up to the
\* first c.send: the reset line when the value is negative
gaugeWithSampling(t) ==
    IF checkSampleRate(frame[t].sampleRate) # Nil
        THEN ReturnErr(t, checkSampleRate(frame[t].sampleRate))
        ELSE \E fire \in shouldFire(frame[t].sampleRate) :
                IF ~fire
                    THEN Return(t)
                    ELSE IF frame[t].val < 0
                    THEN Step(t, "send0")
                    ELSE Step(t, "send")

\* (c *Client) GaugeWithSampling(stat, value, sampleRate)
ClientGaugeWithSampling(t) ==
    /\ ~crashed
    /\ pc[t] = "method"
    /\ frame[t].t = metricTypeGauge
    /\ gaugeWithSampling(t)
    /\ UNCHANGED notClient

\* (c *Client) FGaugeWithSampling(stat, value, sampleRate)
ClientFGaugeWithSampling(t) ==
    /\ ~crashed
    /\ pc[t] = "method"
    /\ frame[t].t = metricTypeFGauge
    /\ gaugeWithSampling(t)
    /\ UNCHANGED notClient

\* (c *Client) TimingWithSampling(stat, delta, sampleRate)
ClientTimingWithSampling(t) ==
    /\ ~crashed
    /\ pc[t] = "method"
    /\ frame[t].t = metricTypeTimer
    /\ IF checkSampleRate(frame[t].sampleRate) # Nil
        THEN ReturnErr(t, checkSampleRate(frame[t].sampleRate))
        ELSE \E fire \in shouldFire(frame[t].sampleRate) :
                IF ~fire THEN Return(t) ELSE Step(t, "send")
    /\ UNCHANGED notClient

\* ------------------------------------------------- conn.go: addToBuffer

\* c.m.Lock() in addToBuffer
addToBufferLock(t) ==
    /\ ~crashed
    /\ pc[t] = "lock"
    /\ m = Free
    /\ m' = t
    /\ Step(t, "add")
    /\ UNCHANGED <<config, gateVars, dispVars, cliVars, buffer, flushVars, wireVars,
                   ncalls, ghostVars>>

\* an addToBuffer that returns from inside its loop without unlocking
addToBuffer_HitKeepsLock(t) ==
    /\ ~crashed
    /\ pc[t] = "add"
    /\ buffer' = addToBufferSlice(buffer, frame[t].stat, frame[t].val)
    /\ m' = IF \E i \in 1..Len(buffer) : buffer[i].name = frame[t].stat THEN m ELSE Free
    /\ winSum' = [winSum EXCEPT ![frame[t].stat] = @ + frame[t].val]
    /\ winCalls' = [winCalls EXCEPT ![frame[t].stat] = @ + 1]
    /\ totSum' = [totSum EXCEPT ![frame[t].stat] = @ + frame[t].val]
    /\ totCalls' = [totCalls EXCEPT ![frame[t].stat] = @ + 1]
    /\ addedBy' = addedBy \cup {t}
    /\ Return(t)
    /\ UNCHANGED <<config, gateVars, dispVars, cliVars, flushVars, wireVars,
                   ncalls, qGhost>>

\* addToBuffer under the lock: find or append the bucket, unlock, return
addToBuffer(t) ==
    /\ ~crashed
    /\ pc[t] = "add"
    /\ buffer' = addToBufferSlice(buffer, frame[t].stat, frame[t].val)
    /\ m' = Free
    /\ winSum' = [winSum EXCEPT ![frame[t].stat] = @ + frame[t].val]
    /\ winCalls' = [winCalls EXCEPT ![frame[t].stat] = @ + 1]
    /\ totSum' = [totSum EXCEPT ![frame[t].stat] = @ + frame[t].val]
    /\ totCalls' = [totCalls EXCEPT ![frame[t].stat] = @ + 1]
    /\ addedBy' = addedBy \cup {t}
    /\ Return(t)
    /\ UNCHANGED <<config, gateVars, dispVars, cliVars, flushVars, wireVars,
                   ncalls, qGhost>>

\* ------------------------------------------------- conn.go: Client.send

\* the type tag the Client method passes to send
TypeTag(t) == IF t \in {metricTypeCount, methodDecr} THEN "c"
              ELSE IF t = metricTypeTimer THEN "ms" ELSE "g"

\* the arguments of the c.send call thread t is in
SendArgs(t) ==
    IF t = FlusherId
        THEN [c |-> "client", bucket |-> fbuf[fidx].name, value |-> fbuf[fidx].count,
              t |-> "c", sampleRate |-> 1000, id |-> nswaps]
        ELSE IF pc[t] \in {"send0", "write0"}
        THEN [c |-> frame[t].cli, bucket |-> frame[t].stat, value |-> 0,
              t |-> "g", sampleRate |-> 1000, id |-> frame[t].id]
        ELSE [c |-> frame[t].cli, bucket |-> frame[t].stat, value |-> frame[t].val,
              t |-> TypeTag(frame[t].t), sampleRate |-> frame[t].sampleRate,
              id |-> frame[t].id]

\* where the caller of c.send goes on when it returns the error e (which is
\* ignored by the flush loop and by the reset call, and returned to its
\* caller by the Client method)
AfterSend(t, e) ==
    IF t = FlusherId
        THEN /\ fidx' = fidx + 1
             /\ Goto(t, IF fidx + 1 > Len(fbuf) THEN "tick" ELSE "send")
             /\ UNCHANGED <<frame, crashed>>
        ELSE IF pc[t] \in {"send0", "write0"}
        THEN Step(t, "send") /\ UNCHANGED fidx
        ELSE ReturnErr(t, e) /\ UNCHANGED fidx

\* Client.send up to conn.Write: ErrNotConnected without a connection
ClientSend(t) ==
    /\ ~crashed
    /\ pc[t] \in {"send0", "send"}
    /\ IF SendArgs(t).c = Nil
        THEN Panic(t) /\ UNCHANGED fidx
        ELSE IF conn = Nil
        THEN AfterSend(t, "ErrNotConnected")
        ELSE Step(t, IF pc[t] = "send0" THEN "write0" ELSE "write") /\ UNCHANGED fidx
    /\ UNCHANGED <<config, gateVars, dispVars, cliVars, bufVars, fbuf, nticks, nswaps,
                   wireVars, ncalls, ghostVars>>

\* a write whose error ends the loop of the goroutine that made it
ConnWrite_ErrorEndsLoop(t, ok) ==
    /\ ~crashed
    /\ pc[t] \in {"write0", "write"}
    /\ wire' = Append(wire,
            [line |-> Metric(prefix, SendArgs(t).bucket, SendArgs(t).value,
                             SendArgs(t).t, SendArgs(t).sampleRate),
             ok |-> ok /\ conn = "open", by |-> t, id |-> SendArgs(t).id,
             closed |-> conn = "closed"])
    /\ IF ok /\ conn = "open"
        THEN AfterSend(t, Nil)
        ELSE Goto(t, "exited") /\ UNCHANGED <<frame, crashed, fidx>>
    /\ UNCHANGED <<config, gateVars, dispVars, cliVars, bufVars, fbuf, nticks, nswaps,
                   ncalls, ghostVars>>

\* c.conn.Write of the formatted metric, which succeeds (ok) or returns an
\* error (always, on a connection Close has closed), and the return of
\* Client.send
ConnWrite(t, ok) ==
    /\ ~crashed
    /\ pc[t] \in {"write0", "write"}
    /\ wire' = Append(wire,
            [line |-> Metric(prefix, SendArgs(t).bucket, SendArgs(t).value,
                             SendArgs(t).t, SendArgs(t).sampleRate),
             ok |-> ok /\ conn = "open", by |-> t, id |-> SendArgs(t).id,
             closed |-> conn = "closed"])
    /\ AfterSend(t, IF ok /\ conn = "open" THEN Nil ELSE "write error")
    /\ UNCHANGED <<config, gateVars, dispVars, cliVars, bufVars, fbuf, nticks, nswaps,
                   ncalls, ghostVars>>

\* --------------------------------------------- conn.go: bufferSendLoop

\* the flush ticker delivers a tick to the loop
flushTick ==
    /\ ~crashed
    /\ pc[FlusherId] = "tick"
    /\ flushticker = "running"
    /\ nticks < MaxTicks
    /\ nticks' = nticks + 1
    /\ Step(FlusherId, "flock")
    /\ UNCHANGED <<config, gateVars, dispVars, cliVars, bufVars, fbuf, fidx, nswaps,
                   wireVars, ncalls, ghostVars>>

\* c.m.Lock() in bufferSendLoop
flushLock ==
    /\ ~crashed
    /\ pc[FlusherId] = "flock"
    /\ m = Free
    /\ m' = FlusherId
    /\ Step(FlusherId, "fswap")
    /\ UNCHANGED <<config, gateVars, dispVars, cliVars, buffer, flushVars,
                   wireVars, ncalls, ghostVars>>

\* a flush that keeps c.m locked while it sends the buckets it swapped out
flushSwap_SendsUnderLock ==
    /\ ~crashed
    /\ pc[FlusherId] = "fswap"
    /\ IF Len(buffer) = 0
        THEN /\ m' = Free
             /\ Step(FlusherId, "tick")
             /\ UNCHANGED <<buffer, fbuf, fidx, nswaps, winSum, winCalls>>
        ELSE /\ m' = FlusherId
             /\ fbuf' = buffer
             /\ buffer' = << >>
             /\ fidx' = 1
             /\ nswaps' = nswaps + 1
             /\ winSum' = ZeroPerStat
             /\ winCalls' = ZeroPerStat
             /\ Step(FlusherId, "send")
    /\ UNCHANGED <<config, gateVars, dispVars, cliVars, nticks, wireVars, ncalls,
                   totCalls, totSum, addedBy, qGhost>>

\* under the lock: nothing to do on an empty buffer, else take the buffer
\* and leave nil; unlock
flushSwap ==
    /\ ~crashed
    /\ pc[FlusherId] = "fswap"
    /\ m' = Free
    /\ IF Len(buffer) = 0
        THEN /\ Step(FlusherId, "tick")
             /\ UNCHANGED <<buffer, fbuf, fidx, nswaps, winSum, winCalls>>
        ELSE /\ fbuf' = buffer
             /\ buffer' = << >>
             /\ fidx' = 1
             /\ nswaps' = nswaps + 1
             /\ winSum' = ZeroPerStat
             /\ winCalls' = ZeroPerStat
             /\ Step(FlusherId, "send")
    /\ UNCHANGED <<config, gateVars, dispVars, cliVars, nticks, wireVars, ncalls,
                   totCalls, totSum, addedBy, qGhost>>

\* ------------------------------------------------------ conn.go: Close

\* (c *Client) Close(), called by the host on the shared Client: stop the
\* flush ticker and close the connection; c.conn keeps the closed connection
\* (a tick the ticker had sent before Stop is taken as already received)
Close(p) ==
    /\ Called(p)
    /\ defaultClient # Nil
    /\ flushticker' = "stopped"
    /\ conn' = IF conn = Nil THEN conn ELSE "closed"
    /\ ReturnsAtOnce
    /\ UNCHANGED <<config, gateVars, dispVars, prefix, bufVars, flushVars, wireVars,
                   crashed, ghostVars>>

\* ------------------------------------------------------- specifications

\* the state once the host has called Setup(&Config{Project: "s.", Enable: true})
InitEnabled ==
    /\ config = <<[Enable |-> TRUE, SampleRate |-> defaultSampleRate,
                   Project |-> <<"s", ".">>]>>
    /\ once = "fresh"
    /\ defaultClient = Nil
    /\ sendLoopOnce = "fresh"
    /\ sendCh = NilChan
    /\ workerCli = Nil
    /\ prefix = << >>
    /\ conn = Nil
    /\ flushticker = Nil
    /\ buffer = << >>
    /\ m = Free
    /\ pc = [t \in Threads \cup {FlusherId} |-> IF t \in Producers THEN "idle" ELSE "none"]
    /\ frame = [t \in Threads |-> NoFrame]
    /\ fbuf = << >>
    /\ fidx = 1
    /\ wire = << >>
    /\ crashed = FALSE
    /\ dials = 0
    /\ flushLoops = 0
    /\ workers = 0
    /\ ncalls = 0
    /\ nticks = 0
    /\ nswaps = 0
    /\ winSum = ZeroPerStat
    /\ winCalls = ZeroPerStat
    /\ totCalls = ZeroPerStat
    /\ totSum = ZeroPerStat
    /\ accepted = << >>
    /\ routed = << >>
    /\ dropped = {}
    /\ addedBy = {}

\* the first caller's steps of getClient
ConstructNext ==
    \/ \E t \in Producers : getClientFirst(t)
    \/ \E t \in Producers, ok \in BOOLEAN : newClient(t, ok)

\* what becomes of a call that panicked
PanicNext ==
    \/ \E p \in Producers : Recover(p)
    \/ \E p \in Producers : Crash(p)

\* the steps of the counter path
CounterNext ==
    \/ \E t \in Threads : ClientIncrWithSampling(t)
    \/ \E t \in Threads : addToBufferLock(t)
    \/ \E t \in Threads : addToBuffer(t)

\* the steps of Client.send, every write succeeding
TransportNext ==
    \/ \E t \in Threads \cup {FlusherId} : ClientSend(t)
    \/ \E t \in Threads \cup {FlusherId} : ConnWrite(t, TRUE)

\* the steps of the flush loop
FlushNext ==
    \/ flushTick
    \/ flushLock
    \/ flushSwap

\* the steps of sendAsync and of the dispatcher goroutine's loop
QueueNext ==
    \/ \E t \in Producers : sendAsyncFirst(t)
    \/ \E t \in Producers : startWorker(t)
    \/ \E t \in Producers : sendAsyncDone(t)
    \/ \E t \in Producers : sendAsyncSelect(t)
    \/ sendEx

\* the counter calls of a host that has called Setup with Enable set
CounterCalls ==
    \/ \E p \in Producers, s \in {StatA, StatB} : Incr(p, s)
    \/ \E p \in Producers : IncrByVal(p, StatA, 2)
    \/ \E p \in Producers, v \in {0, 1} : IncrWithSampling(p, StatB, v, 500)

Next ==
    \/ CounterCalls
    \/ ConstructNext
    \/ \E t \in Producers : getClientDone(t)
    \/ PanicNext
    \/ CounterNext
    \/ TransportNext
    \/ FlushNext

\* counters: producers, the lazy client and the flush loop
Spec == InitEnabled /\ [][Next]_vars

\* every emission function, called by a host that has not called Setup or
\* has called it with Enable unset
GateCalls ==
    \/ \E p \in Producers : Incr(p, StatA)
    \/ \E p \in Producers : IncrByVal(p, StatA, 1)
    \/ \E p \in Producers : IncrWithSampling(p, StatA, 1, 1000)
    \/ \E p \in Producers : Gauge(p, StatA, 1)
    \/ \E p \in Producers : GaugeWithSampling(p, StatA, 1, 1000)
    \/ \E p \in Producers : FGauge(p, StatA, 1)
    \/ \E p \in Producers : FGaugeWithSampling(p, StatA, 1, 1000)
    \/ \E p \in Producers : TimingByValue(p, StatA, 2500000)
    \/ \E p \in Producers : TimingByValueWithSampling(p, StatA, 2500000, 1000)
    \/ \E p \in Producers : Timing(p, StatA, 1000000, 3500000)
    \/ \E p \in Producers : TimingWithSampling(p, StatA, 1000000, 3500000, 1000)

NextGate ==
    \/ \E r \in {0, 500}, pr \in Projects : Setup(FALSE, r, pr)
    \/ GateCalls
    \/ ConstructNext
    \/ \E t \in Producers : getClientDone(t)
    \/ PanicNext
    \/ CounterNext
    \/ TransportNext
    \/ FlushNext

\* the host before Setup, and after Setup with Enable unset
SpecGate == Init /\ [][NextGate]_vars

\* the gauge and timing calls of a host that has called Setup with Enable set
DispatchCalls ==
    \/ \E p \in Producers, v \in {-1, 1} : Gauge(p, StatA, v)
    \/ \E p \in Producers, st \in {StatA, StatEmpty} : FGaugeWithSampling(p, st, 2, 500)
    \/ \E p \in Producers : TimingByValue(p, StatB, 2500000)

NextDispatch ==
    \/ DispatchCalls
    \/ ConstructNext
    \/ PanicNext
    \/ QueueNext
    \/ ClientGaugeWithSampling(WorkerId)
    \/ ClientFGaugeWithSampling(WorkerId)
    \/ ClientTimingWithSampling(WorkerId)
    \/ TransportNext

\* gauges and timings through sendAsync and the dispatcher goroutine; with
\* no counter call the buffer stays empty and the flush loop, which then
\* only locks and unlocks c.m, is left out
SpecDispatch == InitEnabled /\ [][NextDispatch]_vars

NextLifecycle ==
    \/ \E p \in Producers : Incr(p, StatA)
    \/ \E p \in Producers : Gauge(p, StatA, 1)
    \/ ConstructNext
    \/ \E t \in Producers : getClientDone(t)
    \/ PanicNext
    \/ QueueNext
    \/ ClientGaugeWithSampling(WorkerId)
    \/ CounterNext
    \/ TransportNext
    \/ FlushNext

\* first callers arriving through Incr and through sendAsync
SpecLifecycle == InitEnabled /\ [][NextLifecycle]_vars

\* the steps of Client.send, a write succeeding or returning an error
TransportErrNext ==
    \/ \E t \in Threads \cup {FlusherId} : ClientSend(t)
    \/ \E t \in Threads \cup {FlusherId}, ok \in BOOLEAN : ConnWrite(t, ok)

NextTransport ==
    \/ \E p \in Producers, s \in {StatA, StatB} : Incr(p, s)
    \/ \E p \in Producers, v \in {-1, 1} : Gauge(p, StatB, v)
    \/ \E p \in Producers : Close(p)
    \/ ConstructNext
    \/ \E t \in Producers : getClientDone(t)
    \/ PanicNext
    \/ QueueNext
    \/ ClientGaugeWithSampling(WorkerId)
    \/ CounterNext
    \/ TransportErrNext
    \/ FlushNext

\* counters and gauges sharing the connection: the dispatcher goroutine and
\* the flush loop both call Client.send, writes may fail, and the host may
\* call Close
SpecTransport == InitEnabled /\ [][NextTransport]_vars

\* sample rates a caller may pass: -0.1, 0.5, 1 and 1.5
CallRates == {-100, 500, 1000, 1500}

NextClient ==
    \/ \E p \in Producers, c \in {0, 1}, r \in CallRates :
            ClientCall(p, metricTypeCount, StatA, c, r)
    \/ \E p \in Producers, c \in {-1, 1}, r \in {500, 1000} :
            ClientCall(p, methodDecr, StatA, c, r)
    \/ \E p \in Producers, r \in {1000, 1500} :
            ClientCall(p, metricTypeGauge, StatB, -1, r)
    \/ ConstructNext
    \/ \E t \in Producers : getClientDone(t)
    \/ PanicNext
    \/ CounterNext
    \/ \E t \in Producers : ClientDecrWithSampling(t)
    \/ \E t \in Producers : ClientGaugeWithSampling(t)
    \/ TransportNext
    \/ FlushNext

\* the Client methods called directly, with valid and invalid arguments
SpecClient == InitEnabled /\ [][NextClient]_vars

\* every kind of metric, called with the empty stat name
NameCalls ==
    \/ \E p \in Producers : Incr(p, StatEmpty)
    \/ \E p \in Producers : IncrByVal(p, StatEmpty, 1)
    \/ \E p \in Producers : IncrWithSampling(p, StatEmpty, 1, 1000)
    \/ \E p \in Producers : Gauge(p, StatEmpty, 1)
    \/ \E p \in Producers : FGauge(p, StatEmpty, 1)
    \/ \E p \in Producers : TimingByValue(p, StatEmpty, 2500000)

NextNames ==
    \/ NameCalls
    \/ ConstructNext
    \/ \E t \in Producers : getClientDone(t)
    \/ PanicNext
    \/ QueueNext
    \/ CounterNext
    \/ TransportNext
    \/ FlushNext

\* a host that passes the empty stat name to the package-level functions
SpecNames == InitEnabled /\ [][NextNames]_vars

\* ------------------------------------------------------------ the claims

\* the pending count the bucket set holds for a stat
RECURSIVE Pending(_, _)
Pending(buf, stat) ==
    IF buf = << >> THEN 0
    ELSE (IF Head(buf).name = stat THEN Head(buf).count ELSE 0) + Pending(Tail(buf), stat)

\* the sum of the values of the counter lines written for a stat
RECURSIVE CounterLines(_, _)
CounterLines(w, stat) ==
    IF w = << >> THEN 0
    ELSE (IF Head(w).line.t = "c" /\ Head(w).line.bucket = Metric(prefix, stat, 0, "c", 1000).bucket
             THEN Head(w).line.value ELSE 0) + CounterLines(Tail(w), stat)

\* no two buckets of a bucket slice have the same name
OnePerName(buf) ==
    \A i, j \in 1..Len(buf) : buf[i].name = buf[j].name => i = j

\* the lines the flush loop wrote since its last swap
FlushLines == SelectSeq(wire, LAMBDA e : e.by = FlusherId /\ e.id = nswaps)

\* C1: between two flushes, for each counter name, the pending count in the
\* bucket set equals the sum of the deltas of the addToBuffer calls made
\* since the last swap.
C1_PendingIsSumOfDeltas ==
    \A stat \in Stats : Pending(buffer, stat) = winSum[stat]

\* C2: with add(name, 1) calls only (the sum of a name's deltas equals the
\* number of its calls), the bucket set holds one bucket per pending name
\* whose count is the number of calls since the last swap; a flush writes
\* exactly the buckets it swapped out, one line each, in order; and over the
\* whole run the calls for a name are the lines written for it, plus what
\* the running flush has still to write, plus what is pending: none lost,
\* none counted twice.
C2_UnitAddsCountedOnce ==
    /\ OnePerName(buffer)
    /\ OnePerName(fbuf)
    /\ \A stat \in Stats :
        winSum[stat] = winCalls[stat] =>
            /\ Pending(buffer, stat) = winCalls[stat]
            /\ (winCalls[stat] > 0) <=> (\E i \in 1..Len(buffer) : buffer[i].name = stat)
    /\ Len(FlushLines) = fidx - 1
    /\ \A i \in 1..Len(FlushLines) :
        FlushLines[i].line = Metric(prefix, fbuf[i].name, fbuf[i].count, "c", 1000)
    /\ \A stat \in Stats :
        totSum[stat] = totCalls[stat] =>
            totCalls[stat] = CounterLines(wire, stat)
                             + Pending(SubSeq(fbuf, fidx, Len(fbuf)), stat)
                             + Pending(buffer, stat)

\* C2's case: three add(a, 1) calls, two of them written as one line of
\* value 2 by one flush and the third by the next flush
C2_Witness ==
    /\ totCalls[StatA] = 3
    /\ totSum[StatA] = 3
    /\ nswaps = 2
    /\ fidx > Len(fbuf)
    /\ \E i \in 1..Len(wire) : wire[i].line.value = 2 /\ wire[i].id = 1
    /\ \E i \in 1..Len(wire) : wire[i].line.value = 1 /\ wire[i].id = 2

\* C3: while Setup has not been called, no emission call has panicked and
\* none has done anything: neither Once has been used, there is no client
\* and no channel, nothing was dialled, no bucket exists, nothing was written.
C3_NoOpBeforeSetup ==
    config = NilConfig =>
        /\ \A p \in Producers : pc[p] # "panicked"
        /\ ~crashed
        /\ once = "fresh"
        /\ sendLoopOnce = "fresh"
        /\ defaultClient = Nil
        /\ sendCh = NilChan
        /\ dials = 0
        /\ buffer = << >>
        /\ wire = << >>

\* C4: once Setup has been called with Enable unset, no emission call
\* enqueues an item, creates or changes a bucket, or has a line written.
C4_NoOpWhenDisabled ==
    (config # NilConfig /\ ~config[1].Enable) =>
        /\ accepted = << >>
        /\ sendCh = NilChan
        /\ buffer = << >>
        /\ fbuf = << >>
        /\ totCalls = ZeroPerStat
        /\ wire = << >>

\* C10: a caller's own thread only attempts the enqueue: no producer ever
\* runs addToBuffer, holds or waits for the bucket lock, or is inside
\* Client.send; only the dispatcher goroutine adds to the buffer.
C10_CallersOnlyEnqueue ==
    /\ addedBy \subseteq {WorkerId}
    /\ m \notin Producers
    /\ \A p \in Producers :
        pc[p] \notin {"lock", "add", "send0", "write0", "send", "write"}


\* the items queued in sendCh
Queue == IF sendCh = NilChan THEN << >> ELSE sendCh[1]

\* the steps of the dispatcher goroutine
WorkerNext ==
    \/ sendEx
    \/ ClientGaugeWithSampling(WorkerId)
    \/ ClientFGaugeWithSampling(WorkerId)
    \/ ClientTimingWithSampling(WorkerId)
    \/ ClientSend(WorkerId)
    \/ ConnWrite(WorkerId, TRUE)

\* SpecDispatch with the Go scheduler running the dispatcher goroutine
\* whenever it can take a step
FairDispatch == SpecDispatch /\ WF_vars(WorkerNext)

\* C5: sendAsync never blocks on queue space or on the dispatcher: once
\* sendLoopOnce is done a caller can always take its next step, the queue
\* never holds more than its capacity, a send on a full queue drops the new
\* item and leaves the queue as it was, and no step but the dispatcher's
\* receive removes a queued item.
C5_EnqueueNeverBlocks ==
    /\ [](/\ Len(Queue) <= QueueCap
          /\ \A p \in Producers :
                /\ (~crashed /\ pc[p] = "select") => ENABLED sendAsyncSelect(p)
                /\ (~crashed /\ pc[p] = "sendAsync" /\ sendLoopOnce = "done")
                        => ENABLED sendAsyncDone(p))
    /\ [][\A p \in Producers :
            (pc[p] = "select" /\ pc'[p] # "select") =>
                /\ pc'[p] = "idle"
                /\ IF Len(Queue) = QueueCap
                    THEN sendCh' = sendCh /\ frame[p].id \in dropped'
                    ELSE Queue' = Append(Queue, SendItem(frame[p]))]_vars
    /\ [][routed' = routed =>
            /\ Len(Queue') >= Len(Queue)
            /\ SubSeq(Queue', 1, Len(Queue)) = Queue]_vars

\* C5's case: the dispatcher goroutine exists, the queue is full and a call
\* has returned with its item dropped
C5_Witness ==
    /\ workers = 1
    /\ Len(Queue) = QueueCap
    /\ dropped # {}
    /\ \A p \in Producers : pc[p] = "idle"

Min(a, b) == IF a <= b THEN a ELSE b

\* C6: after a successful construction, with the dispatcher goroutine
\* scheduled fairly, every item the queue accepted is eventually passed to
\* sendEx; and of the items producers tried to enqueue, at least
\* capacity-many (or all, if fewer) were accepted, so are delivered.
C6_AcceptedEventuallyRouted ==
    /\ [](sendCh # NilChan =>
            Len(accepted) >= Min(Len(accepted) + Cardinality(dropped), QueueCap))
    /\ (defaultClient # Nil) ~> (routed = accepted)

\* C6's case: a burst overflowed the queue and capacity-many items reached
\* sendEx
C6_Witness ==
    /\ defaultClient # Nil
    /\ dropped # {}
    /\ Len(routed) >= QueueCap
    /\ routed = accepted

\* C7: at most one dispatcher goroutine is ever started, none before the
\* first sendAsync; a caller that reaches the channel send has a channel
\* and a started dispatcher; the dispatcher never leaves its loop.
C7_ExactlyOneWorker ==
    /\ workers <= 1
    /\ sendLoopOnce = "fresh" => workers = 0
    /\ \A p \in Producers : pc[p] = "select" => sendCh # NilChan /\ workers = 1
    /\ accepted # << >> => workers = 1
    /\ workers >= 1 => pc[WorkerId] \in {"recv", "method", "send0", "write0", "send", "write"}

\* C8: one dial and one flush loop at most; no caller is past getClient
\* while the first caller is still constructing; every caller that getClient
\* has returned to, and the dispatcher goroutine, hold the one non-nil Client.
C8_OneSharedClient ==
    /\ dials <= 1
    /\ flushLoops <= 1
    /\ once = "running" =>
            \A t \in Producers : pc[t] \notin {"method", "lock", "add", "spawn"}
    /\ \A t \in Producers :
            pc[t] \in {"method", "lock", "add", "spawn"} => frame[t].cli = "client"
    /\ workers >= 1 => workerCli = "client"

\* the lines the dispatcher goroutine wrote
WorkerLines == SelectSeq(wire, LAMBDA e : e.by = WorkerId)

\* the place of the item of call number id in the order of routing
RoutedAt(id) == CHOOSE k \in 1..Len(routed) : routed[k].id = id

\* C9: the queue holds the accepted items not yet routed, in the order of
\* acceptance, so items are routed in that order; the dispatcher's lines are
\* on the wire in the order their items were accepted; and when the
\* dispatcher is back in its loop every routed item of rate 1 with a stat
\* has its line written.
C9_Fifo ==
    /\ accepted = routed \o Queue
    /\ \A i \in 1..Len(WorkerLines) : \E k \in 1..Len(routed) : routed[k].id = WorkerLines[i].id
    /\ \A i, j \in 1..Len(WorkerLines) :
            i < j => RoutedAt(WorkerLines[i].id) <= RoutedAt(WorkerLines[j].id)
    /\ (pc[WorkerId] = "recv" /\ ~crashed /\ workerCli # Nil) =>
            \A k \in 1..Len(routed) :
                (routed[k].stat # StatEmpty /\ routed[k].sampleRate = 1000) =>
                    \E i \in 1..Len(WorkerLines) :
                        /\ WorkerLines[i].id = routed[k].id
                        /\ WorkerLines[i].line.value = routed[k].val

\* C9's case: two gauges of rate 1 accepted in the order of their calls and
\* a third item, their lines on the wire in that order
C9_Witness ==
    /\ Len(routed) = 3
    /\ \E i, j \in 1..Len(WorkerLines) :
        /\ i < j
        /\ WorkerLines[i].id < WorkerLines[j].id
        /\ WorkerLines[i].line.t = "g"
        /\ WorkerLines[j].line.t = "g"
        /\ WorkerLines[i].line.sampleRate = 1000
        /\ WorkerLines[j].line.sampleRate = 1000

\* the positions on the wire of the lines the dispatcher wrote for the item
\* of call number id
LinesOf(id) == {i \in 1..Len(wire) : wire[i].by = WorkerId /\ wire[i].id = id}

\* the dispatcher goroutine has finished the routed item number k
Finished(k) == k < Len(routed) \/ pc[WorkerId] = "recv"

\* C11: a gauge item with a negative value that fires has exactly two
\* writes: the reset line (value 0, type g, rate 1) and, at the very next
\* position on the wire, the line with the value; a gauge item with a
\* non-negative value has exactly one write.
C11_NegativeGaugeTwoAdjacentWrites ==
    \A k \in 1..Len(routed) :
        LET item == routed[k]
            at == LinesOf(item.id)
        IN  (item.t = metricTypeGauge /\ item.stat # StatEmpty /\ workerCli # Nil) =>
                IF item.val < 0
                    THEN /\ Cardinality(at) <= 2
                         /\ (Finished(k) /\ ~crashed) => Cardinality(at) = 2
                         /\ \A i \in at :
                                \/ /\ wire[i].line = Metric(prefix, item.stat, 0, "g", 1000)
                                   /\ (i + 1 \in at \/ i = Len(wire))
                                \/ /\ wire[i].line = Metric(prefix, item.stat, item.val, "g",
                                                            item.sampleRate)
                                   /\ i - 1 \in at
                    ELSE /\ Cardinality(at) <= 1
                         /\ (Finished(k) /\ ~crashed) => Cardinality(at) = 1
                         /\ \A i \in at :
                                wire[i].line = Metric(prefix, item.stat, item.val, "g",
                                                      item.sampleRate)

\* the threads that are at the c.conn.Write call of Client.send
Writers == {t \in Threads \cup {FlusherId} : pc[t] \in {"write0", "write"}}

\* C12: the connection is never written by two threads at once: at most one
\* of the dispatcher goroutine, the flush goroutine and the callers is at
\* the c.conn.Write of Client.send.
C12_OneWriterAtATime == Cardinality(Writers) <= 1

\* C13: a Client.send that tests c.conn once Close has returned (or with no
\* connection ever made) returns without going on to c.conn.Write: a thread
\* only ever enters the write while the connection is open.
C13_NoWriteOnceClosed ==
    [][\A t \in Threads \cup {FlusherId} :
        (pc[t] \in {"send0", "send"} /\ pc'[t] \in {"write0", "write"}) => conn = "open"]_vars

\* the loop states of the dispatcher goroutine and of the flush goroutine
WorkerLoop == {"recv", "method", "send0", "write0", "send", "write"}
FlushLoop == {"tick", "flock", "fswap", "send", "write"}

\* C14: whatever writes fail, the goroutines stay in their loops; a flush
\* has made one write per bucket it has gone through, in order, and is back
\* at the ticker only when it has gone through them all; and the dispatcher,
\* when it has finished an item with a stat, has made every write of that
\* item (two for a negative gauge, the second one even if the first failed),
\* the queue holding exactly the accepted items it has yet to take.
C14_WriteFailureIsolated ==
    /\ flushLoops >= 1 => pc[FlusherId] \in FlushLoop
    /\ workers >= 1 => pc[WorkerId] \in WorkerLoop
    /\ Len(FlushLines) = fidx - 1
    /\ \A i \in 1..Len(FlushLines) :
        FlushLines[i].line = Metric(prefix, fbuf[i].name, fbuf[i].count, "c", 1000)
    /\ pc[FlusherId] \in {"send", "write"} => fidx <= Len(fbuf)
    /\ pc[FlusherId] \in {"tick", "flock", "fswap"} => fidx = Len(fbuf) + 1
    /\ accepted = routed \o Queue
    /\ \A k \in 1..Len(routed) :
        (Finished(k) /\ ~crashed /\ workerCli # Nil /\ routed[k].stat # StatEmpty
            /\ routed[k].sampleRate = 1000) =>
                Cardinality(LinesOf(routed[k].id)) = IF routed[k].val < 0 THEN 2 ELSE 1

\* C14's case: the flush loop's write for its first bucket failed on an open
\* connection and it wrote the next bucket of the same swap; the
\* dispatcher's reset write failed and it wrote the value line after it
C14_Witness ==
    /\ \E i, j \in 1..Len(wire) :
        /\ i < j
        /\ wire[i].by = FlusherId /\ wire[j].by = FlusherId
        /\ wire[i].id = wire[j].id
        /\ ~wire[i].ok /\ ~wire[i].closed
    /\ \E i, j \in 1..Len(wire) :
        /\ i < j
        /\ wire[i].by = WorkerId /\ wire[j].by = WorkerId
        /\ wire[i].id = wire[j].id
        /\ ~wire[i].ok /\ ~wire[i].closed
        /\ wire[i].line.value = 0 /\ wire[j].line.value < 0
    /\ pc[WorkerId] = "recv"
    /\ pc[FlusherId] = "tick"

\* the construction of the shared Client has failed: once.Do has run (with
\* Setup called) and left no Client
ConstructionFailed == config # NilConfig /\ once = "done" /\ defaultClient = Nil

\* C15: when newClient has failed, the dial was made exactly once and is
\* never made again, and no call goes on as if there were a Client: no
\* dispatcher goroutine runs, no item is queued or about to be queued, and
\* no thread is in a Client method or about to start the dispatcher with
\* the nil Client.
C15_ConstructionFailureAborts ==
    ConstructionFailed =>
        /\ dials = 1
        /\ flushLoops = 0
        /\ workers = 0
        /\ accepted = << >>
        /\ Queue = << >>
        /\ \A t \in Producers : pc[t] \notin {"method", "lock", "add", "spawn", "select"}

\* C16: a Client method called with a sample rate outside [0, 1] returns
\* ErrInvalidSampleRate, and IncrWithSampling or DecrWithSampling called
\* with a valid sample rate and a count <= 0 returns ErrInvalidCount; in
\* both cases the call returns at once, the buckets and the wire unchanged.
C16_ValidationErrorsReturned ==
    [][\A t \in Producers :
        (pc[t] = "method" /\ pc'[t] # "method") =>
            /\ checkSampleRate(frame[t].sampleRate) # Nil =>
                    /\ pc'[t] = "idle"
                    /\ frame'[t].err = "ErrInvalidSampleRate"
                    /\ buffer' = buffer /\ wire' = wire
            /\ (/\ checkSampleRate(frame[t].sampleRate) = Nil
                /\ frame[t].t \in {metricTypeCount, methodDecr}
                /\ frame[t].val <= 0) =>
                    /\ pc'[t] = "idle"
                    /\ frame'[t].err = "ErrInvalidCount"
                    /\ buffer' = buffer /\ wire' = wire]_vars

\* C17: a metric with an empty stat name is dropped whatever its kind and
\* entry point: no bucket, pending or swapped out, has the empty name, and
\* no line written has the empty stat name for its bucket.
C17_EmptyNamesDropped ==
    /\ \A i \in 1..Len(buffer) : buffer[i].name # StatEmpty
    /\ \A i \in 1..Len(fbuf) : fbuf[i].name # StatEmpty
    /\ \A i \in 1..Len(wire) :
        wire[i].line.bucket # Metric(prefix, StatEmpty, 0, "c", 1000).bucket

\* the threads that are inside Client.send
Sending == {t \in Threads \cup {FlusherId} : pc[t] \in {"send0", "write0", "send", "write"}}

\* C18: c.m is held only for the swap in bufferSendLoop and for the lookup
\* and update in addToBuffer: its holder is at one of those two places, and
\* no thread inside Client.send holds it, so a thread waiting for the lock
\* never waits for a write.
C18_NoWriteUnderLock ==
    /\ m \in {Free} \cup Threads \cup {FlusherId}
    /\ \A t \in Sending : m # t
    /\ m = FlusherId => pc[FlusherId] = "fswap"
    /\ \A t \in Threads : m = t => pc[t] = "add"

\* C18's case: while the flush goroutine is at the write of a swapped-out
\* bucket (an earlier write of the flush having failed), a caller holds
\* the lock and adds
C18_Witness ==
    /\ pc[FlusherId] = "write"
    /\ fidx = 2
    /\ \E i \in 1..Len(wire) : wire[i].by = FlusherId /\ ~wire[i].ok /\ wire[i].id = nswaps
    /\ \E p \in Producers : m = p /\ pc[p] = "add"

\* C19: a counter call that reaches Client.IncrWithSampling with a Client, a
\* positive count and a sample rate in [0, 1] always goes on to addToBuffer,
\* whatever fireRand draws; and every counter line the flush loop writes
\* carries the sample rate 1.
C19_CountersBypassSampling ==
    [][/\ \A t \in Producers :
            (/\ pc[t] = "method" /\ pc'[t] # "method"
             /\ frame[t].t = metricTypeCount
             /\ frame[t].cli # Nil
             /\ frame[t].val > 0
             /\ checkSampleRate(frame[t].sampleRate) = Nil) => pc'[t] = "lock"
       /\ \A i \in 1..Len(wire') :
            wire'[i].by = FlusherId => wire'[i].line.sampleRate = 1000]_vars

\* Spec with the Go scheduler running every thread that holds c.m, and
\* sync.Mutex handing the lock to every thread that keeps waiting for it
FairCounter ==
    /\ Spec
    /\ \A t \in Producers : SF_vars(addToBufferLock(t)) /\ WF_vars(addToBuffer(t))
    /\ SF_vars(flushLock) /\ WF_vars(flushSwap)

\* C20: whoever holds c.m is at a step that releases it and can take that
\* step, on the existing-bucket and new-bucket paths of addToBuffer and on
\* the empty-buffer and swap paths of the flush, so no state is a deadlock
\* on the lock; and under fair scheduling every addToBuffer that waits for
\* the lock returns, and every flush tick gets past the lock.
C20_LockAlwaysReleased ==
    /\ [](/\ m = FlusherId => (pc[FlusherId] = "fswap" /\ ENABLED flushSwap)
          /\ \A t \in Producers : m = t => (pc[t] = "add" /\ ENABLED addToBuffer(t))
          /\ \A t \in Producers : (pc[t] = "lock" /\ m = Free) => ENABLED addToBufferLock(t))
    /\ \A t \in Producers : (pc[t] = "lock") ~> (pc[t] = "idle")
    /\ (pc[FlusherId] = "flock") ~> (pc[FlusherId] \in {"tick", "send"})

\* C20's case: a caller holds the lock on the existing-bucket path while
\* the other caller and the flush goroutine both wait for it
C20_Witness ==
    \E p, q \in Producers :
        /\ m = p /\ pc[p] = "add"
        /\ \E i \in 1..Len(buffer) : buffer[i].name = frame[p].stat
        /\ pc[q] = "lock"
        /\ pc[FlusherId] = "flock"

====
